---- MODULE Spec2Model ----
(***************************************************************************)
(* Real-time ingestion and derived-view pipeline of the stock market       *)
(* dashboard: the useWebSocket hook (transport with reconnection), the     *)
(* message effect of App (decoder and snapshot store) and the filter/sort  *)
(* effect of App (derived view).                                           *)
(*                                                                         *)
(* JavaScript values that can be of more than one type are modelled as     *)
(* tagged records so that every variable keeps one shape:                  *)
(*   - a value that should be an array: [isArray, items]                   *)
(*   - a filter bound: [t, v] with t in "num", "inf", "undef"              *)
(*   - a raw frame: [text, type, data], text in "null", "garbage", "json"  *)
(***************************************************************************)
EXTENDS Integers, Sequences, FiniteSets, TLC

\* ---------------------------------------------------------------- bounds
\* total number of WebSocket objects ever constructed in one behaviour of the
\* transport on its own (SpecTransport) and of the whole program (Spec)
MaxSockets == 8
MaxStreamSockets == 2
\* total number of WebSocket objects constructed by a hook whose url changes
MaxUrlSockets == 3
\* total number of frames delivered to onmessage in one behaviour
MaxFrames == 3
\* longest snapshot sequence drawn as input of the derived-view engine
MaxStocks == 3
\* total number of sendMessage calls in one behaviour
MaxSends == 2
\* total number of handleSymbolClick calls in one behaviour
MaxRequests == 2
\* longest snapshot sequence drawn as input of the market statistics
MaxStatsStocks == 6

\* ------------------------------------------------------- program constants
BaseDelayMs == 1000
CapDelayMs == 30000

VARIABLES
  phase,                \* "init" before the hook's effect ran, "mounted", "unmounted"
  url,                  \* the url argument of useWebSocket
  sockets,              \* every WebSocket constructed so far, in construction order
  wsRef,                \* wsRef.current: index into sockets, 0 for null
  timers,               \* pending setTimeout callbacks
  reconnectTimeoutRef,  \* reconnectTimeoutRef.current: id of a timer, 0 for null
  reconnectCountRef,    \* reconnectCountRef.current
  connectionStatus,     \* React state of the hook
  lastMessage,          \* React state of the hook
  timeout,              \* the delay computed by the most recent onclose
  stocks,               \* React state of App: the snapshot store
  filteredStocks,       \* React state of App: the derived view
  sortConfig,           \* React state of App
  filterConfig,         \* React state of App
  rendered,             \* the effect dependencies as of the last commit of App
  lossCount,            \* history: connection losses since the last handshake
  nReceived,            \* history: frames delivered to onmessage
  decoded,              \* history: the frames handed to JSON.parse, in order
  latestValid,          \* history: data of the last valid market_data frame received
  sendCalls,            \* history: the sendMessage calls, with the status at the call
  transmitted,          \* the payloads handed to WebSocket.send, with their socket
  stats,                \* the value of the memo of StatsPanel in the last render
  firstRun,             \* history: the first run of the view effect on a non-empty store
  selectedSymbol,       \* React state of App: the symbol of the chart modal, "" for null
  historicalData,       \* React state of App: the points handed to the chart
  isModalOpen,          \* React state of App
  isLoading,            \* React state of App
  error,                \* React state of App: null, undefined or a message
  requests              \* the calls of handleSymbolClick: symbol, stage and outcome

transportVars == <<url, sockets, wsRef, timers, reconnectTimeoutRef,
                   reconnectCountRef, connectionStatus, timeout, lossCount,
                   sendCalls, transmitted>>
historyVars == <<selectedSymbol, historicalData, isModalOpen, isLoading, error,
                 requests>>
vars == <<phase, url, sockets, wsRef, timers, reconnectTimeoutRef,
          reconnectCountRef, connectionStatus, lastMessage, timeout,
          stocks, filteredStocks, sortConfig, filterConfig, rendered,
          lossCount, nReceived, decoded, latestValid, sendCalls, transmitted,
          stats,
          firstRun,
          selectedSymbol, historicalData, isModalOpen, isLoading, error, requests>>

\* ------------------------------------------------------------ JS values
JsArray(s) == [isArray |-> TRUE, items |-> s]
JsNull == [isArray |-> FALSE, items |-> <<>>]

Num(n) == [t |-> "num", v |-> n]
Infinity == [t |-> "inf", v |-> 0]
Undefined == [t |-> "undef", v |-> 0]

\* a <= b and a >= b of JavaScript for a number a and a bound b
JsLe(a, b) == IF b.t = "num" THEN a <= b.v ELSE b.t = "inf"
JsGe(a, b) == b.t = "num" /\ a >= b.v

RECURSIVE Pow2(_)
Pow2(n) == IF n = 0 THEN 1 ELSE 2 * Pow2(n - 1)

MathMin(a, b) == IF a <= b THEN a ELSE b

\* the error state of App: null, undefined or a message
ErrNull == [t |-> "null", v |-> ""]
ErrUndefined == [t |-> "undefined", v |-> ""]
ErrMsg(message) == [t |-> "string", v |-> message]

\* ------------------------------------------------------------ snapshots
Snap(sym, price, vol, trades, pct) ==
  [symbol |-> sym, current_price |-> price, volume |-> vol,
   trade_count |-> trades, percent_change |-> pct]

\* the generations carried by the market_data frames of the stream
GenOne == <<Snap("AAA", 2, 2, 1, 5), Snap("BBB", 1, 2, 2, -3), Snap("DDD", 3, 1, 3, 0)>>
GenTwo == <<Snap("CCC", 2, 1, 2, 1)>>

\* new WebSocket(url) throws a SyntaxError for a url that is not a ws: url
ValidUrl == "ws://host:8000/ws"
OtherUrl == "ws://other:8000/ws"
BadUrl == "host 8000"
WebSocketThrows(u) == u = BadUrl

\* ---------------------------------------------------------------- frames
Json(type, data) == [text |-> "json", type |-> type, data |-> data]
Garbage == [text |-> "garbage", type |-> "", data |-> JsNull]
NoMessage == [text |-> "null", type |-> "", data |-> JsNull]

Frames ==
  { Garbage,
    Json("market_data", JsArray(GenOne)),
    Json("market_data", JsArray(GenTwo)),
    Json("market_data", JsArray(<<>>)),
    Json("market_data", JsNull),
    Json("market_status", JsArray(GenTwo)),
    Json("error", JsNull),
    Json("heartbeat", JsArray(GenOne)) }

\* JSON.parse returns the envelope of well-formed text and throws otherwise
JSONparseThrows(raw) == raw.text # "json"
JSONparse(raw) == [type |-> raw.type, data |-> raw.data]

ValidMarketData(raw) ==
  raw.text = "json" /\ raw.type = "market_data" /\ raw.data.isArray

\* ------------------------------------------------- derived view engine
\* the predicate with the upper price bound exclusive
filterPredicateExclusiveMax(stock, f) ==
  /\ JsGe(stock.current_price, f.minPrice)
  /\ JsLe(stock.current_price, f.maxPrice)
  /\ (f.maxPrice.t = "num" => stock.current_price # f.maxPrice.v)
  /\ JsGe(stock.volume, f.minVolume)
  /\ JsLe(stock.volume, f.maxVolume)
  /\ JsGe(stock.trade_count, f.minTradeCount)

\* App.js 76-84: the predicate of filtered.filter
filterPredicate(stock, f) ==
  /\ JsGe(stock.current_price, f.minPrice)
  /\ JsLe(stock.current_price, f.maxPrice)
  /\ JsGe(stock.volume, f.minVolume)
  /\ JsLe(stock.volume, f.maxVolume)
  /\ JsGe(stock.trade_count, f.minTradeCount)

\* the comparator with percent_change as a secondary key
compareSecondaryKey(a, b, s) ==
  IF a[s.key] < b[s.key]
  THEN (IF s.direction = "asc" THEN -1 ELSE 1)
  ELSE IF a[s.key] > b[s.key]
       THEN (IF s.direction = "asc" THEN 1 ELSE -1)
       ELSE IF a.percent_change < b.percent_change THEN -1
            ELSE IF a.percent_change > b.percent_change THEN 1 ELSE 0

\* App.js 86-94: the comparator handed to filtered.sort
compare(a, b, s) ==
  IF a[s.key] < b[s.key]
  THEN (IF s.direction = "asc" THEN -1 ELSE 1)
  ELSE IF a[s.key] > b[s.key]
       THEN (IF s.direction = "asc" THEN 1 ELSE -1)
       ELSE 0

\* Array.prototype.sort is a stable sort (ECMAScript 2019): an element is
\* moved in front of exactly the elements that compare greater than it.
RECURSIVE insertSorted(_, _, _)
insertSorted(sorted, x, s) ==
  IF sorted = <<>>
  THEN <<x>>
  ELSE IF compare(sorted[Len(sorted)], x, s) > 0
       THEN Append(insertSorted(SubSeq(sorted, 1, Len(sorted) - 1), x, s),
                   sorted[Len(sorted)])
       ELSE Append(sorted, x)

RECURSIVE ArraySort(_, _)
ArraySort(seq, s) ==
  IF seq = <<>>
  THEN <<>>
  ELSE insertSorted(ArraySort(SubSeq(seq, 1, Len(seq) - 1), s), seq[Len(seq)], s)

\* Array.prototype.slice(0, n) for n >= 0
slice(seq, n) == SubSeq(seq, 1, MathMin(n, Len(seq)))

\* Array.prototype.slice(-n) for n > 0: the last n elements
sliceLast(seq, n) == SubSeq(seq, Len(seq) - MathMin(n, Len(seq)) + 1, Len(seq))

\* Array.prototype.reverse
reverse(seq) == [i \in 1..Len(seq) |-> seq[Len(seq) + 1 - i]]

\* ------------------------------------------------------ market statistics
\* Number.prototype.toFixed(digits) of the fraction num / den, den > 0, as
\* the number of units of the last digit: the nearest one, the larger of two
\* equally near ones (toFixed(1) of 66.66... is 667 tenths, "66.7")
toFixedTruncated(num, den, scale) == (scale * num) \div den

toFixed(num, den, scale) == (2 * scale * num + den) \div (2 * den)

\* two fraction digits
TwoDigits(n) == IF n < 10 THEN "0" \o ToString(n) ELSE ToString(n)

\* (num / unit).toFixed(2) + suffix
formatScaled(num, unit, suffix) ==
  LET h == toFixed(num, unit, 100)
  IN  ToString(h \div 100) \o "." \o TwoDigits(h % 100) \o suffix

\* FilterControls.js 253-262, for a non-negative integer; toLocaleString of
\* an integer below 1000 is its digits
formatLargeNumber(num) ==
  IF num >= 1000000000 THEN formatScaled(num, 1000000000, "B")
  ELSE IF num >= 1000000 THEN formatScaled(num, 1000000, "M")
  ELSE IF num >= 1000 THEN formatScaled(num, 1000, "K")
  ELSE ToString(num)

\* FilterControls.js 264-269, for a non-negative integer below 1000: two
\* fraction digits and no grouping separator
formatPrice(price) == "$" \o ToString(price) \o ".00"

\* FilterControls.js 276-278: the comparator (a, b) => b[key] - a[key]
descending(a, b, key) == b[key] - a[key]

RECURSIVE insertDescending(_, _, _)
insertDescending(sorted, x, key) ==
  IF sorted = <<>>
  THEN <<x>>
  ELSE IF descending(sorted[Len(sorted)], x, key) > 0
       THEN Append(insertDescending(SubSeq(sorted, 1, Len(sorted) - 1), x, key),
                   sorted[Len(sorted)])
       ELSE Append(sorted, x)

\* [...list].sort((a, b) => b[key] - a[key]), a stable sort
RECURSIVE sortDescending(_, _)
sortDescending(list, key) ==
  IF list = <<>>
  THEN <<>>
  ELSE insertDescending(sortDescending(SubSeq(list, 1, Len(list) - 1), key),
                        list[Len(list)], key)

\* FilterControls.js 276
sortedByGain(list) == sortDescending(list, "percent_change")

\* equal volumes in the reverse of their order in the list
sortedByVolumeTiesReversed(list) == sortDescending(reverse(list), "volume")

\* FilterControls.js 277
sortedByVolume(list) == sortDescending(list, "volume")

\* FilterControls.js 278
sortedByTrades(list) == sortDescending(list, "trade_count")

\* Array.prototype.reduce((sum, stock) => sum + stock[key], 0)
RECURSIVE reduceSum(_, _)
reduceSum(list, key) ==
  IF list = <<>> THEN 0
  ELSE reduceSum(SubSeq(list, 1, Len(list) - 1), key) + list[Len(list)][key]

\* FilterControls.js 286
gainers(list) == SelectSeq(list, LAMBDA stock : stock.percent_change > 0)

\* the ratio cut off after its first decimal
marketTrendTruncated(list) ==
  [gainers |-> Len(gainers(list)),
   losers |-> Len(list) - Len(gainers(list)),
   ratio |-> toFixedTruncated(Len(gainers(list)) * 100, Len(list), 10)]

\* FilterControls.js 287-291; ratio in tenths
marketTrend(list) ==
  [gainers |-> Len(gainers(list)),
   losers |-> Len(list) - Len(gainers(list)),
   ratio |-> toFixed(Len(gainers(list)) * 100, Len(list), 10)]

\* FilterControls.js 294-300; formatFn names the formatting function
formatStockList(list, valueKey, formatFn) ==
  [i \in 1..Len(slice(list, 5)) |->
     [symbol |-> list[i].symbol,
      percent_change |-> list[i].percent_change,
      value |-> IF formatFn = "formatPrice"
                THEN formatPrice(list[i][valueKey])
                ELSE formatLargeNumber(list[i][valueKey])]]

\* FilterControls.js 307
topGainers(list) == formatStockList(sortedByGain(list), "current_price", "formatPrice")

\* the last five of the descending order, not reversed
topLosersNotReversed(list) ==
  formatStockList(sliceLast(sortedByGain(list), 5), "current_price", "formatPrice")

\* FilterControls.js 308
topLosers(list) ==
  formatStockList(reverse(sliceLast(sortedByGain(list), 5)), "current_price", "formatPrice")

\* FilterControls.js 273, 314: the null of the memo, rendered as nothing
NullStats ==
  [present |-> FALSE, totalVolume |-> 0, totalTrades |-> 0,
   avgPrice |-> [num |-> 0, den |-> 1],
   marketTrend |-> [gainers |-> 0, losers |-> 0, ratio |-> 0],
   topGainers |-> <<>>, topLosers |-> <<>>,
   mostActiveVolume |-> <<>>, mostActiveTrades |-> <<>>]

\* FilterControls.js 281-311: the statistics of a list; avgPrice is the
\* quotient num / den
summary(list) ==
  [present |-> TRUE,
   totalVolume |-> reduceSum(list, "volume"),
   totalTrades |-> reduceSum(list, "trade_count"),
   avgPrice |-> [num |-> reduceSum(list, "current_price"), den |-> Len(list)],
   marketTrend |-> marketTrend(list),
   topGainers |-> topGainers(list),
   topLosers |-> topLosers(list),
   mostActiveVolume |-> formatStockList(sortedByVolume(list), "volume", "formatLargeNumber"),
   mostActiveTrades |-> formatStockList(sortedByTrades(list), "trade_count",
                                        "formatLargeNumber")]

\* the memo without the guard of the empty list; 0 / 0 in the ratio
useMemoStatsUnguarded(list) ==
  IF Len(list) = 0
  THEN [NullStats EXCEPT !.present = TRUE, !.avgPrice = [num |-> 0, den |-> 0]]
  ELSE summary(list)

\* FilterControls.js 272-312: the callback of useMemo in StatsPanel
useMemoStats(list) == IF Len(list) = 0 THEN NullStats ELSE summary(list)

\* the effect truncating before it sorts
computeSliceBeforeSort(snapshots, f, s) ==
  ArraySort(slice(SelectSeq(snapshots, LAMBDA stock : filterPredicate(stock, f)),
                  f.displayCount), s)

\* App.js 74-96: the body of the filter/sort effect up to setFilteredStocks
compute(snapshots, f, s) ==
  slice(ArraySort(SelectSeq(snapshots, LAMBDA stock : filterPredicate(stock, f)), s),
        f.displayCount)

\* the effect sorting the store itself before it filters a copy
viewEffectSortsStore(snapshots, f, s) ==
  [stocks |-> ArraySort(snapshots, s), filtered |-> compute(snapshots, f, s)]

\* App.js 73-98: the filter/sort effect; [...stocks] and filter build new
\* arrays, sort works in place on the copy: stocks is the array of the store
\* after the effect, filtered the argument of setFilteredStocks
viewEffect(snapshots, f, s) ==
  [stocks |-> snapshots, filtered |-> compute(snapshots, f, s)]

\* no run of the view effect on a non-empty store yet
NoRun ==
  [set |-> FALSE, inputs |-> <<>>, view |-> <<>>, again |-> FALSE, same |-> TRUE]

\* ------------------------------------------------------- message effect
\* the effect with a catch block that empties the store
MessageEffectClearOnError(raw, cur) ==
  IF raw.text = "null" THEN cur
  ELSE IF JSONparseThrows(raw) THEN JsArray(<<>>)
  ELSE IF JSONparse(raw).type = "market_data" THEN JSONparse(raw).data
  ELSE cur

\* the effect merging the new generation into the previous one
MessageEffectMerge(raw, cur) ==
  IF raw.text = "null" THEN cur
  ELSE IF JSONparseThrows(raw) THEN cur
  ELSE IF JSONparse(raw).type = "market_data"
       THEN IF JSONparse(raw).data.isArray
            THEN JsArray(SelectSeq(cur.items,
                                   LAMBDA old : \A k \in 1..Len(JSONparse(raw).data.items) :
                                                  JSONparse(raw).data.items[k].symbol # old.symbol)
                         \o JSONparse(raw).data.items)
            ELSE JSONparse(raw).data
  ELSE cur

\* App.js 59-70: the value of stocks after the effect ran with lastMessage = raw
MessageEffect(raw, cur) ==
  IF raw.text = "null" THEN cur
  ELSE IF JSONparseThrows(raw) THEN cur
  ELSE IF JSONparse(raw).type = "market_data" THEN JSONparse(raw).data
  ELSE cur

\* the dependency lists of the two effects of App (App.js 70 and 98)
MessageDeps(d) == <<d.lastMessage>>
\* the dependency list of the view effect without filterConfig
ViewDepsWithoutFilter(d) == <<d.stocks, d.sortConfig>>
ViewDeps(d) == <<d.stocks, d.sortConfig, d.filterConfig>>

Deps == [lastMessage |-> lastMessage, stocks |-> stocks,
         sortConfig |-> sortConfig, filterConfig |-> filterConfig]

\* ------------------------------------------------------------ transport
\* the delay without the cap
reconnectDelayUncapped(count) == BaseDelayMs * Pow2(count)

\* useWebSocket.js 28: the delay of the reconnection timer
reconnectDelay(count) == MathMin(BaseDelayMs * Pow2(count), CapDelayMs)

\* React ignores a state update of a component that is not mounted
setState(old, new) == IF phase # "unmounted" THEN new ELSE old

NewSocket(u) == [readyState |-> "CONNECTING", url |-> u, closeFired |-> FALSE]

\* useWebSocket.js 10-46: connect, for the closure created with url u
connect(u) ==
  IF WebSocketThrows(u)
  THEN /\ connectionStatus' = setState(connectionStatus, "error")
       /\ UNCHANGED <<sockets, wsRef>>
  ELSE /\ sockets' = Append(sockets, NewSocket(u))
       /\ wsRef' = Len(sockets) + 1
       /\ UNCHANGED connectionStatus

\* WebSocket.close(): starts the closing handshake of a socket that is not
\* closed yet; its close event is delivered later
closeSocket(ws) ==
  IF ws.readyState \in {"CONNECTING", "OPEN"}
  THEN [ws EXCEPT !.readyState = "CLOSING"]
  ELSE ws

\* useWebSocket.js 51-58: the cleanup of the effect
cleanup ==
  /\ sockets' = IF wsRef # 0
                THEN [sockets EXCEPT ![wsRef] = closeSocket(sockets[wsRef])]
                ELSE sockets
  /\ timers' = IF reconnectTimeoutRef # 0
               THEN {t \in timers : t.id # reconnectTimeoutRef}
               ELSE timers

InitialSort == [key |-> "trade_count", direction |-> "desc"]
InitialFilter ==
  [minPrice |-> Num(0), maxPrice |-> Infinity, minVolume |-> Num(0),
   maxVolume |-> Infinity, minTradeCount |-> Num(0), displayCount |-> 50]

Init ==
  /\ phase = "init"
  /\ url \in {ValidUrl, BadUrl}
  /\ sockets = <<>>
  /\ wsRef = 0
  /\ timers = {}
  /\ reconnectTimeoutRef = 0
  /\ reconnectCountRef = 0
  /\ connectionStatus = "connecting"
  /\ lastMessage = NoMessage
  /\ timeout = 0
  /\ stocks = JsArray(<<>>)
  /\ filteredStocks = <<>>
  /\ sortConfig = InitialSort
  /\ filterConfig = InitialFilter
  /\ rendered = [lastMessage |-> NoMessage, stocks |-> JsArray(<<>>),
                 sortConfig |-> InitialSort, filterConfig |-> InitialFilter]
  /\ lossCount = 0
  /\ nReceived = 0
  /\ decoded = <<>>
  /\ latestValid = JsArray(<<>>)
  /\ sendCalls = <<>>
  /\ transmitted = <<>>
  /\ stats = useMemoStats(<<>>)
  /\ firstRun = NoRun
  /\ selectedSymbol = ""
  /\ historicalData = <<>>
  /\ isModalOpen = FALSE
  /\ isLoading = FALSE
  /\ error = ErrNull
  /\ requests = <<>>

\* useWebSocket.js 48-50 and App.js 59-98: the first commit; the hook's effect
\* calls connect, the message effect sees null, the view effect computes the
\* view of the empty store
Mount ==
  /\ phase = "init"
  /\ phase' = "mounted"
  /\ connect(url)
  /\ filteredStocks' = compute(stocks.items, filterConfig, sortConfig)
  /\ rendered' = Deps
  /\ UNCHANGED <<url, timers, reconnectTimeoutRef, reconnectCountRef, lastMessage,
                 timeout, stocks, sortConfig, filterConfig, lossCount,
                 nReceived, decoded, latestValid,
                 sendCalls, transmitted, stats,
                 firstRun, historyVars>>

\* useWebSocket.js 15-19
onopen(i) ==
  /\ sockets[i].readyState = "CONNECTING"
  /\ sockets' = [sockets EXCEPT ![i].readyState = "OPEN"]
  /\ connectionStatus' = setState(connectionStatus, "connected")
  /\ reconnectCountRef' = 0
  /\ lossCount' = 0
  /\ UNCHANGED <<phase, url, wsRef, timers, reconnectTimeoutRef, lastMessage, timeout,
                 stocks, filteredStocks, sortConfig, filterConfig, rendered,
                 nReceived, decoded, latestValid,
                 sendCalls, transmitted, stats,
                 firstRun, historyVars>>

\* useWebSocket.js 21-23; after unmount setLastMessage changes nothing
onmessage(i, raw) ==
  /\ phase = "mounted"
  /\ sockets[i].readyState = "OPEN"
  /\ nReceived < MaxFrames
  /\ lastMessage' = setState(lastMessage, raw)
  /\ nReceived' = nReceived + 1
  /\ latestValid' = IF ValidMarketData(raw) THEN raw.data ELSE latestValid
  /\ UNCHANGED <<phase, transportVars, wsRef, stocks, filteredStocks, sortConfig,
                 filterConfig, rendered, decoded, stats,
                 firstRun, historyVars>>

\* useWebSocket.js 37-40: the error event of a failing connection; the browser
\* delivers the close event of the same connection after it
onerror(i) ==
  /\ sockets[i].readyState \in {"CONNECTING", "OPEN", "CLOSING"}
  /\ sockets' = [sockets EXCEPT ![i].readyState = "CLOSED"]
  /\ connectionStatus' = setState(connectionStatus, "error")
  /\ UNCHANGED <<phase, url, wsRef, timers, reconnectTimeoutRef, reconnectCountRef,
                 lastMessage, timeout, stocks, filteredStocks, sortConfig,
                 filterConfig, rendered, lossCount, nReceived, decoded,
                 latestValid,
                 sendCalls, transmitted, stats,
                 firstRun, historyVars>>

\* useWebSocket.js 25-35: the close event, delivered once per connection
onclose(i) ==
  /\ ~sockets[i].closeFired
  /\ sockets[i].readyState \in {"OPEN", "CLOSING", "CLOSED"}
  /\ sockets' = [sockets EXCEPT ![i].readyState = "CLOSED", ![i].closeFired = TRUE]
  /\ connectionStatus' = setState(connectionStatus, "disconnected")
  /\ timeout' = reconnectDelay(reconnectCountRef)
  /\ timers' = timers \cup {[id |-> i, delay |-> timeout']}
  /\ reconnectTimeoutRef' = i
  /\ lossCount' = lossCount + 1
  /\ UNCHANGED <<phase, url, wsRef, reconnectCountRef, lastMessage, stocks,
                 filteredStocks, sortConfig, filterConfig, rendered,
                 nReceived, decoded, latestValid,
                 sendCalls, transmitted, stats,
                 firstRun, historyVars>>

\* useWebSocket.js 31-34: the callback of the reconnection timer
reconnectTimer(t) ==
  /\ t \in timers
  /\ timers' = timers \ {t}
  /\ reconnectCountRef' = reconnectCountRef + 1
  /\ connect(sockets[t.id].url)
  /\ UNCHANGED <<phase, url, reconnectTimeoutRef, lastMessage, timeout, stocks,
                 filteredStocks, sortConfig, filterConfig, rendered, lossCount,
                 nReceived, decoded, latestValid,
                 sendCalls, transmitted, stats,
                 firstRun, historyVars>>

\* useWebSocket.js 51-58: the host unmounts App, the cleanup of the effect runs
Teardown ==
  /\ phase = "mounted"
  /\ phase' = "unmounted"
  /\ cleanup
  /\ UNCHANGED <<url, wsRef, reconnectTimeoutRef, reconnectCountRef, connectionStatus,
                 lastMessage, timeout, stocks, filteredStocks, sortConfig,
                 filterConfig, rendered, lossCount, nReceived, decoded,
                 latestValid,
                 sendCalls, transmitted, stats,
                 firstRun, historyVars>>

\* the derived view handed to StatsPanel
StatsPanelFilteredStocks == filteredStocks

\* App.js 192-194: the stocks prop of StatsPanel
StatsPanelStocks == stocks.items

\* App.js 59-98 and 192-197: a commit of App with a store that is an array;
\* the effects whose dependencies changed since the previous commit run with
\* the values of this render, and the memo of StatsPanel holds the statistics
\* of the stocks prop of this render
Commit(observed) ==
  LET ran == ViewDeps(Deps) # ViewDeps(rendered)
      effect == viewEffect(stocks.items, filterConfig, sortConfig)
      store == IF ran THEN JsArray(effect.stocks) ELSE stocks
  IN
  /\ phase = "mounted"
  /\ Deps # rendered
  /\ stocks.isArray
  /\ rendered' = Deps
  /\ IF MessageDeps(Deps) # MessageDeps(rendered)
     THEN /\ stocks' = MessageEffect(lastMessage, store)
          /\ decoded' = Append(decoded, lastMessage)
     ELSE /\ stocks' = store
          /\ UNCHANGED decoded
  /\ filteredStocks' = IF ran THEN effect.filtered ELSE filteredStocks
  /\ firstRun' =
       IF ~observed \/ ~ran \/ stocks.items = <<>> THEN firstRun
       ELSE IF ~firstRun.set
            THEN [set |-> TRUE, inputs |-> ViewDeps(Deps), view |-> effect.filtered,
                  again |-> FALSE, same |-> TRUE]
            ELSE IF firstRun.inputs = ViewDeps(Deps)
                 THEN [firstRun EXCEPT !.again = TRUE,
                                       !.same = @ /\ effect.filtered = firstRun.view]
                 ELSE firstRun
  /\ stats' = useMemoStats(StatsPanelStocks)
  /\ UNCHANGED <<phase, transportVars, wsRef, lastMessage, sortConfig, filterConfig,
                 nReceived, latestValid, historyVars>>

\* a commit of App
RenderCommit == Commit(FALSE)

\* a commit of App, the first run of the view effect on a non-empty store
\* and the runs that repeat its inputs recorded in firstRun
ObservedCommit == Commit(TRUE)

\* FilterControls.js 273 and App.js 74: rendering with a store that is not an
\* array throws (stocks.length of null, [...stocks]); React unmounts the tree
\* and the cleanup of the hook's effect runs
RenderCrash ==
  /\ phase = "mounted"
  /\ ~stocks.isArray
  /\ phase' = "unmounted"
  /\ cleanup
  /\ UNCHANGED <<url, wsRef, reconnectTimeoutRef, reconnectCountRef, connectionStatus,
                 lastMessage, timeout, stocks, filteredStocks, sortConfig,
                 filterConfig, rendered, lossCount, nReceived, decoded,
                 latestValid,
                 sendCalls, transmitted, stats,
                 firstRun, historyVars>>

\* WebSocket.send called whatever the readyState of the socket
sendMessageUnguarded(message) ==
  /\ phase = "mounted"
  /\ sendCalls' = Append(sendCalls, [message |-> message, status |-> connectionStatus])
  /\ transmitted' = IF wsRef # 0
                    THEN Append(transmitted, [socket |-> wsRef, message |-> message])
                    ELSE transmitted
  /\ UNCHANGED <<phase, url, sockets, wsRef, timers, reconnectTimeoutRef,
                 reconnectCountRef, connectionStatus, lastMessage, timeout, stocks,
                 filteredStocks, sortConfig, filterConfig, rendered, lossCount,
                 nReceived, decoded, latestValid, stats,
                 firstRun, historyVars>>

\* useWebSocket.js 61-65: sendMessage, called by the component that owns the
\* hook while it is mounted
sendMessage(message) ==
  /\ phase = "mounted"
  /\ sendCalls' = Append(sendCalls, [message |-> message, status |-> connectionStatus])
  /\ transmitted' = IF wsRef # 0 /\ sockets[wsRef].readyState = "OPEN"
                    THEN Append(transmitted, [socket |-> wsRef, message |-> message])
                    ELSE transmitted
  /\ UNCHANGED <<phase, url, sockets, wsRef, timers, reconnectTimeoutRef,
                 reconnectCountRef, connectionStatus, lastMessage, timeout, stocks,
                 filteredStocks, sortConfig, filterConfig, rendered, lossCount,
                 nReceived, decoded, latestValid, stats,
                 firstRun, historyVars>>

\* useWebSocket.js 10, 46-59: the hook rendered with another url; connect is
\* a new callback, the cleanup of the effect runs and the effect runs again
\* with the new connect
ChangeUrl(u) ==
  LET closed == IF wsRef # 0
                THEN [sockets EXCEPT ![wsRef] = closeSocket(sockets[wsRef])]
                ELSE sockets
  IN
  /\ phase = "mounted"
  /\ u # url
  /\ url' = u
  /\ timers' = IF reconnectTimeoutRef # 0
               THEN {t \in timers : t.id # reconnectTimeoutRef}
               ELSE timers
  /\ IF WebSocketThrows(u)
     THEN /\ connectionStatus' = setState(connectionStatus, "error")
          /\ sockets' = closed
          /\ UNCHANGED wsRef
     ELSE /\ sockets' = Append(closed, NewSocket(u))
          /\ wsRef' = Len(sockets) + 1
          /\ UNCHANGED connectionStatus
  /\ UNCHANGED <<phase, reconnectTimeoutRef, reconnectCountRef, lastMessage, timeout,
                 stocks, filteredStocks, sortConfig, filterConfig, rendered, lossCount,
                 nReceived, decoded, latestValid, sendCalls, transmitted, stats,
                 firstRun, historyVars>>

\* ------------------------------------------------- configuration surface
SortKeys == {"trade_count", "current_price"}
displayOptions == {10, 20, 50, 100, 200}

\* the direction flipped whatever key is selected
handleSortFlipAnyKey(key) ==
  /\ phase = "mounted"
  /\ sortConfig' = [key |-> key,
                    direction |-> IF sortConfig.direction = "asc" THEN "desc" ELSE "asc"]
  /\ UNCHANGED <<phase, transportVars, lastMessage, stocks, filteredStocks,
                 filterConfig, rendered, nReceived, decoded, latestValid, stats,
                 firstRun, historyVars>>

\* App.js 100-105
handleSort(key) ==
  /\ phase = "mounted"
  /\ sortConfig' = [key |-> key,
                    direction |-> IF sortConfig.key = key /\ sortConfig.direction = "asc"
                                  THEN "desc" ELSE "asc"]
  /\ UNCHANGED <<phase, transportVars, lastMessage, stocks, filteredStocks,
                 filterConfig, rendered, nReceived, decoded, latestValid, stats,
                 firstRun, historyVars>>

\* FilterControls.js 15-20
handleChange(field, value) ==
  /\ phase = "mounted"
  /\ filterConfig' = [filterConfig EXCEPT ![field] = value]
  /\ UNCHANGED <<phase, transportVars, lastMessage, stocks, filteredStocks,
                 sortConfig, rendered, nReceived, decoded, latestValid, stats,
                 firstRun, historyVars>>

\* FilterControls.js 22-29: const [min, max] = values
handleRangeChange(field, values) ==
  /\ phase = "mounted"
  /\ filterConfig' =
       [filterConfig EXCEPT
          !["min" \o field] = IF Len(values) >= 1 THEN values[1] ELSE Undefined,
          !["max" \o field] = IF Len(values) >= 2 THEN values[2] ELSE Undefined]
  /\ UNCHANGED <<phase, transportVars, lastMessage, stocks, filteredStocks,
                 sortConfig, rendered, nReceived, decoded, latestValid, stats,
                 firstRun, historyVars>>

\* FilterControls.js 119-126: the reset button
resetFilters ==
  /\ phase = "mounted"
  /\ filterConfig' = InitialFilter
  /\ UNCHANGED <<phase, transportVars, lastMessage, stocks, filteredStocks,
                 sortConfig, rendered, nReceived, decoded, latestValid, stats,
                 firstRun, historyVars>>

\* slider.js 12 with FilterControls.js 51, 70: the range input reports one number
RangeSlider(field, v) == handleRangeChange(field, <<Num(v)>>)
\* slider.js 12 with FilterControls.js 87
TradeCountSlider(v) == handleChange("minTradeCount", Num(v))
\* FilterControls.js 102
DisplaySelect(n) == handleChange("displayCount", n)

\* ------------------------------------------------------- historical data
\* the frame of every action of the chart modal
streamVars == <<phase, transportVars, lastMessage, stocks, filteredStocks, sortConfig,
                filterConfig, rendered, nReceived, decoded, latestValid, stats,
                firstRun>>

\* the points served for a symbol by GET /api/historical/{symbol}
History(symbol) ==
  IF symbol = "AAA"
  THEN <<[timestamp |-> 1, price |-> 2, volume |-> 2], [timestamp |-> 2, price |-> 3, volume |-> 1]>>
  ELSE <<[timestamp |-> 1, price |-> 1, volume |-> 2]>>

\* new Date(timestamp)
Date(timestamp) == [time |-> timestamp]

\* App.js 120-124: data.data.map(point => ...)
chartData(points) ==
  [i \in 1..Len(points) |->
     [timestamp |-> Date(points[i].timestamp), price |-> points[i].price,
      volume |-> points[i].volume]]

\* the ways the promise of fetch settles: rejected, a response that is not ok,
\* a response that is ok
Responses == {"rejected", "notOk", "ok"}

\* the ways the promise of response.json() settles for a symbol: rejected
\* (valid = FALSE) or a body { success, data, error? }
Bodies(symbol) ==
  { [valid |-> FALSE, success |-> FALSE, data |-> <<>>, error |-> ErrUndefined],
    [valid |-> TRUE, success |-> TRUE, data |-> History(symbol), error |-> ErrUndefined],
    [valid |-> TRUE, success |-> FALSE, data |-> <<>>, error |-> ErrMsg("no data for symbol")],
    [valid |-> TRUE, success |-> FALSE, data |-> <<>>, error |-> ErrUndefined] }

Pending(r) == requests[r].stage # "done"

\* App.js 107-114: handleSymbolClick up to the await of fetch
handleSymbolClick(symbol) ==
  /\ phase = "mounted"
  /\ isLoading' = TRUE
  /\ error' = ErrNull
  /\ selectedSymbol' = symbol
  /\ isModalOpen' = TRUE
  /\ requests' = Append(requests,
                        [symbol |-> symbol, stage |-> "fetch", outcome |-> "pending",
                         concurrent |-> \E r \in 1..Len(requests) : Pending(r)])
  /\ UNCHANGED <<streamVars, historicalData>>

\* App.js 130-135: the catch block and the finally block
catch(r, message) ==
  /\ error' = setState(error, ErrMsg(message))
  /\ isLoading' = setState(isLoading, FALSE)
  /\ requests' = [requests EXCEPT ![r].stage = "done", ![r].outcome = "failed"]
  /\ UNCHANGED <<streamVars, selectedSymbol, historicalData, isModalOpen>>

\* App.js 114-117: the continuation after the await of fetch
fetchSettles(r, response) ==
  /\ requests[r].stage = "fetch"
  /\ IF response = "rejected" THEN catch(r, "Failed to fetch")
     ELSE IF response = "notOk" THEN catch(r, "HTTP error! status: 500")
     ELSE /\ requests' = [requests EXCEPT ![r].stage = "json"]
          /\ UNCHANGED <<streamVars, selectedSymbol, historicalData, isModalOpen,
                         isLoading, error>>

\* App.js 119-135: the continuation after the await of response.json()
jsonSettles(r, body) ==
  /\ requests[r].stage = "json"
  /\ IF ~body.valid THEN catch(r, "Unexpected token")
     ELSE /\ IF body.success
             THEN /\ historicalData' = setState(historicalData, chartData(body.data))
                  /\ UNCHANGED error
             ELSE /\ error' = setState(error, body.error)
                  /\ UNCHANGED historicalData
          /\ isLoading' = setState(isLoading, FALSE)
          /\ requests' = [requests EXCEPT
                            ![r].stage = "done",
                            ![r].outcome = IF body.success THEN "data" ELSE "failed"]
          /\ UNCHANGED <<streamVars, selectedSymbol, isModalOpen>>

\* App.js 225: onClose of TradeChartModal
onClose ==
  /\ phase = "mounted"
  /\ isModalOpen
  /\ isModalOpen' = FALSE
  /\ UNCHANGED <<streamVars, selectedSymbol, historicalData, isLoading, error, requests>>

Sockets == 1..Len(sockets)

Next ==
  \/ Mount
  \/ \E i \in Sockets : onopen(i)
  \/ \E i \in Sockets, raw \in Frames : onmessage(i, raw)
  \/ \E i \in Sockets : onerror(i)
  \/ \E i \in Sockets : onclose(i)
  \/ \E t \in timers : Len(sockets) < MaxStreamSockets /\ reconnectTimer(t)
  \/ Teardown
  \/ RenderCommit
  \/ RenderCrash

\* the transport, the stream and the commits of App under the initial
\* configuration
Spec == Init /\ [][Next]_vars

\* the transport on its own, with enough reconnections to reach the delay cap
TransportNext ==
  \/ Mount
  \/ \E i \in Sockets : onopen(i)
  \/ \E i \in Sockets : onerror(i)
  \/ \E i \in Sockets : onclose(i)
  \/ \E t \in timers : Len(sockets) < MaxSockets /\ reconnectTimer(t)
  \/ Teardown
  \/ Len(sendCalls) < MaxSends /\ sendMessage(Len(sendCalls) + 1)

SpecTransport == Init /\ [][TransportNext]_vars

\* the transport of a hook whose url argument changes
UrlNext ==
  \/ Mount
  \/ \E i \in Sockets : onopen(i)
  \/ \E i \in Sockets : onerror(i)
  \/ \E i \in Sockets : onclose(i)
  \/ \E t \in timers : Len(sockets) < MaxUrlSockets /\ reconnectTimer(t)
  \/ \E u \in {ValidUrl, OtherUrl, BadUrl} : Len(sockets) < MaxUrlSockets /\ ChangeUrl(u)
  \/ Teardown

SpecUrl == Init /\ [][UrlNext]_vars

\* -------------------------------------------- the stream and the controls
\* the frames of a healthy stream
ViewFrames ==
  { Json("market_data", JsArray(GenOne)),
    Json("market_data", JsArray(GenTwo)),
    Json("market_data", JsArray(<<>>)),
    Json("market_status", JsArray(GenTwo)) }

\* the state after Mount and the handshake of the first connection
InitView ==
  /\ phase = "mounted"
  /\ url = ValidUrl
  /\ sockets = <<[NewSocket(ValidUrl) EXCEPT !.readyState = "OPEN"]>>
  /\ wsRef = 1
  /\ timers = {}
  /\ reconnectTimeoutRef = 0
  /\ reconnectCountRef = 0
  /\ connectionStatus = "connected"
  /\ lastMessage = NoMessage
  /\ timeout = 0
  /\ stocks = JsArray(<<>>)
  /\ filteredStocks = <<>>
  /\ sortConfig = InitialSort
  /\ filterConfig = InitialFilter
  /\ rendered = [lastMessage |-> NoMessage, stocks |-> JsArray(<<>>),
                 sortConfig |-> InitialSort, filterConfig |-> InitialFilter]
  /\ lossCount = 0
  /\ nReceived = 0
  /\ decoded = <<>>
  /\ latestValid = JsArray(<<>>)
  /\ sendCalls = <<>>
  /\ transmitted = <<>>
  /\ stats = useMemoStats(<<>>)
  /\ firstRun = NoRun
  /\ selectedSymbol = ""
  /\ historicalData = <<>>
  /\ isModalOpen = FALSE
  /\ isLoading = FALSE
  /\ error = ErrNull
  /\ requests = <<>>

ViewNext ==
  \/ \E i \in Sockets, raw \in ViewFrames : onmessage(i, raw)
  \/ RenderCommit
  \/ \E key \in SortKeys : handleSort(key)
  \/ RangeSlider("Price", 2)
  \/ TradeCountSlider(2)
  \/ resetFilters

\* the commits of App while the connection stays open and the user changes
\* the configuration
SpecView == InitView /\ [][ViewNext]_vars

\* the frames that fill the store
PureFrames == { Json("market_data", JsArray(GenOne)), Json("market_data", JsArray(<<>>)) }

PureNext ==
  \/ \E i \in Sockets, raw \in PureFrames : onmessage(i, raw)
  \/ ObservedCommit
  \/ \E key \in SortKeys : handleSort(key)
  \/ TradeCountSlider(2)
  \/ DisplaySelect(10)
  \/ resetFilters

\* the commits of App observed while the same stores and configurations
\* come back
SpecPure == InitView /\ [][PureNext]_vars

\* the symbols of the rows that are clicked
HistorySymbols == {"AAA", "BBB"}

HistoryNext ==
  \/ \E symbol \in HistorySymbols :
       Len(requests) < MaxRequests /\ handleSymbolClick(symbol)
  \/ \E r \in 1..Len(requests), response \in Responses : fetchSettles(r, response)
  \/ \E r \in 1..Len(requests) :
       \E body \in Bodies(requests[r].symbol) : jsonSettles(r, body)
  \/ onClose
  \/ \E i \in Sockets : onmessage(i, Json("market_data", JsArray(GenOne)))
  \/ RenderCommit

\* the chart modal and its requests while the stream goes on
SpecHistory == InitView /\ [][HistoryNext]_vars

\* ------------------------------------------- the derived view engine alone
\* snapshots with ties on every sort key
Universe ==
  { Snap("AAA", 1, 1, 1, 5), Snap("BBB", 2, 2, 1, -3),
    Snap("CCC", 3, 1, 2, 1), Snap("DDD", 2, 2, 2, 0) }

\* the sequences of at most n snapshots with pairwise different symbols
Generations(n) ==
  UNION { { g \in [1..k -> Universe] :
              \A i, j \in 1..k : i # j => g[i].symbol # g[j].symbol } : k \in 0..n }

ComputeFilters ==
  [minPrice : {Num(0), Num(2), Num(3)}, maxPrice : {Num(2), Infinity},
   minVolume : {Num(0), Num(2)}, maxVolume : {Num(1), Infinity},
   minTradeCount : {Num(0), Num(2)}, displayCount : {2, 50}]

ComputeSorts ==
  [key : {"current_price", "volume", "trade_count"}, direction : {"asc", "desc"}]

\* the program connected, one market_data frame decoded into the store and
\* committed under the initial configuration, a configuration then chosen
InitCompute ==
  \E g \in Generations(MaxStocks) :
    /\ phase = "mounted"
    /\ url = ValidUrl
    /\ sockets = <<[NewSocket(ValidUrl) EXCEPT !.readyState = "OPEN"]>>
    /\ wsRef = 1
    /\ timers = {}
    /\ reconnectTimeoutRef = 0
    /\ reconnectCountRef = 0
    /\ connectionStatus = "connected"
    /\ lastMessage = Json("market_data", JsArray(g))
    /\ timeout = 0
    /\ stocks = JsArray(g)
    /\ filteredStocks = compute(g, InitialFilter, InitialSort)
    /\ sortConfig \in ComputeSorts
    /\ filterConfig \in ComputeFilters
    /\ rendered = [lastMessage |-> lastMessage, stocks |-> stocks,
                   sortConfig |-> InitialSort, filterConfig |-> InitialFilter]
    /\ lossCount = 0
    /\ nReceived = 1
    /\ decoded = <<lastMessage>>
    /\ latestValid = JsArray(g)
    /\ sendCalls = <<>>
    /\ transmitted = <<>>
    /\ stats = useMemoStats(g)
    /\ firstRun = IF g = <<>> THEN NoRun
                  ELSE [NoRun EXCEPT !.set = TRUE,
                                     !.inputs = <<JsArray(g), InitialSort, InitialFilter>>,
                                     !.view = compute(g, InitialFilter, InitialSort)]
    /\ selectedSymbol = ""
    /\ historicalData = <<>>
    /\ isModalOpen = FALSE
    /\ isLoading = FALSE
    /\ error = ErrNull
    /\ requests = <<>>

ComputeNext == RenderCommit

SpecCompute == InitCompute /\ [][ComputeNext]_vars

\* ------------------------------------------------ the market statistics alone
\* snapshots with ties on percent_change, volume and trade_count, a
\* percent_change of zero and a volume above a thousand
StatsUniverse ==
  { Snap("AAA", 10, 100, 3, 5), Snap("BBB", 20, 400, 1, -3),
    Snap("CCC", 30, 50, 2, 1), Snap("DDD", 5, 100, 3, 0),
    Snap("EEE", 40, 1500, 1, 5), Snap("FFF", 15, 50, 2, -3),
    Snap("GGG", 25, 400, 4, 2) }

\* the sequences of at most n of these snapshots with pairwise different symbols
StatsGenerations(n) ==
  UNION { { g \in [1..k -> StatsUniverse] :
              \A i, j \in 1..k : i # j => g[i].symbol # g[j].symbol } : k \in 0..n }

\* the program connected, one market_data frame received and decoded into the
\* store by the message effect, the store not rendered yet
InitStats ==
  \E g \in StatsGenerations(MaxStatsStocks) :
    /\ phase = "mounted"
    /\ url = ValidUrl
    /\ sockets = <<[NewSocket(ValidUrl) EXCEPT !.readyState = "OPEN"]>>
    /\ wsRef = 1
    /\ timers = {}
    /\ reconnectTimeoutRef = 0
    /\ reconnectCountRef = 0
    /\ connectionStatus = "connected"
    /\ lastMessage = Json("market_data", JsArray(g))
    /\ timeout = 0
    /\ stocks = JsArray(g)
    /\ filteredStocks = <<>>
    /\ sortConfig = InitialSort
    /\ filterConfig = InitialFilter
    /\ rendered = [lastMessage |-> lastMessage, stocks |-> JsArray(<<>>),
                   sortConfig |-> InitialSort, filterConfig |-> InitialFilter]
    /\ lossCount = 0
    /\ nReceived = 1
    /\ decoded = <<lastMessage>>
    /\ latestValid = JsArray(g)
    /\ sendCalls = <<>>
    /\ transmitted = <<>>
    /\ stats = useMemoStats(<<>>)
    /\ firstRun = NoRun
    /\ selectedSymbol = ""
    /\ historicalData = <<>>
    /\ isModalOpen = FALSE
    /\ isLoading = FALSE
    /\ error = ErrNull
    /\ requests = <<>>

StatsNext == RenderCommit

SpecStats == InitStats /\ [][StatsNext]_vars

\* ================================================================ claims
Quiescent == phase = "mounted" /\ Deps = rendered
LastDecoded == decoded[Len(decoded)]
InView(x) == \E j \in 1..Len(filteredStocks) : filteredStocks[j] = x
StorePos(x) == CHOOSE k \in 1..Len(stocks.items) : stocks.items[k] = x

\* C1: after the cleanup of the effect has run, no reconnection timer is
\* pending and no further connection is constructed.
C1_NoReconnectAfterTeardown ==
  /\ [](phase = "unmounted" => timers = {})
  /\ [][phase = "unmounted" => Len(sockets') = Len(sockets)]_vars

\* C2: the close event of the k-th consecutive connection loss since the last
\* handshake schedules a timer of min(2^k, 30) seconds.
C2_BackoffDelays ==
  [][\A i \in Sockets :
       (~sockets[i].closeFired /\ sockets'[i].closeFired)
         => [id |-> i, delay |-> 1000 * MathMin(Pow2(lossCount), 30)] \in timers']_vars

C2_Witness ==
  /\ lossCount >= 7
  /\ \E t \in timers : t.delay = 30000
  /\ \E i \in Sockets : sockets[i].closeFired

\* C3: while ConnectionState is error, a retry is pending or the close event
\* that schedules it is still to come.
C3_ErrorRoutesToRetry ==
  (phase = "mounted" /\ connectionStatus = "error")
    => (timers # {} \/ \E i \in Sockets : ~sockets[i].closeFired)

\* C4: once every received frame is processed, each frame was handed to the
\* decoder once and the store holds the data of the last valid market_data
\* frame received.
C4_EveryFrameDecodedOnce ==
  Quiescent => (Len(decoded) = nReceived /\ stocks = latestValid)

\* C5: the step that processes an unparsable frame changes neither the store
\* nor ConnectionState nor the connection nor the timers, and a valid
\* market_data frame processed after it is applied.
C5_MalformedFrameIgnored ==
  [][/\ (decoded' # decoded /\ JSONparseThrows(lastMessage))
          => /\ stocks' = stocks
             /\ connectionStatus' = connectionStatus
             /\ sockets' = sockets
             /\ wsRef' = wsRef
             /\ timers' = timers
     /\ (decoded' # decoded /\ decoded # <<>> /\ JSONparseThrows(LastDecoded)
           /\ ValidMarketData(lastMessage))
          => stocks' = lastMessage.data]_vars

C5_Witness ==
  /\ Len(decoded) = 2
  /\ JSONparseThrows(decoded[1])
  /\ ValidMarketData(decoded[2])
  /\ stocks = JsArray(GenOne)
  /\ connectionStatus = "connected"
  /\ sockets[wsRef].readyState = "OPEN"
  /\ timers = {}

\* C6: the store is always a sequence of snapshots, and a parsable frame that
\* is not a valid market_data frame changes neither the store nor the
\* connection.
C6_StoreAlwaysSequence ==
  /\ [](stocks.isArray)
  /\ [][(decoded' # decoded /\ ~JSONparseThrows(lastMessage)
           /\ ~ValidMarketData(lastMessage))
          => (stocks' = stocks /\ sockets' = sockets)]_vars

\* C7: while the frame processed last is a valid market_data frame the store
\* is exactly that frame's sequence, and the store is at every moment the
\* initial store or the data of one frame.
C7_WholesaleReplace ==
  /\ (decoded # <<>> /\ ValidMarketData(LastDecoded)) => stocks = LastDecoded.data
  /\ stocks \in {JsArray(<<>>)} \cup {f.data : f \in Frames}

C7_Witness ==
  /\ decoded = <<Json("market_data", JsArray(GenOne)), Json("market_data", JsArray(GenTwo))>>
  /\ stocks = JsArray(GenTwo)

\* C8: once the commits triggered by store replacements and configuration
\* changes have run, the view is compute of the current store, filter and sort.
C8_ViewFollowsInputs ==
  Quiescent => filteredStocks = compute(stocks.items, filterConfig, sortConfig)

C8_Witness ==
  /\ Quiescent
  /\ stocks = JsArray(GenOne)
  /\ filterConfig # InitialFilter
  /\ sortConfig # InitialSort
  /\ filteredStocks # <<>>
  /\ filteredStocks # compute(GenOne, InitialFilter, InitialSort)
  /\ filteredStocks # compute(GenOne, InitialFilter, sortConfig)
  /\ filteredStocks # compute(GenOne, filterConfig, InitialSort)

\* the filter of the specification: inclusive ranges, an unbounded max
\* accepts every value
Retained(x, f) ==
  /\ f.minPrice.v <= x.current_price
  /\ (f.maxPrice = Infinity \/ x.current_price <= f.maxPrice.v)
  /\ f.minVolume.v <= x.volume
  /\ (f.maxVolume = Infinity \/ x.volume <= f.maxVolume.v)
  /\ x.trade_count >= f.minTradeCount.v

\* C9: when truncation drops nothing, a snapshot of the store is in the view
\* if and only if its price and volume lie in the inclusive ranges of the
\* filter and its trade count reaches the minimum.
C9_FilterInclusiveBounds ==
  (Quiescent /\ filterConfig.displayCount >= Len(stocks.items))
    => \A i \in 1..Len(stocks.items) :
         InView(stocks.items[i]) <=> Retained(stocks.items[i], filterConfig)

C9_Witness ==
  /\ Quiescent
  /\ filterConfig.maxPrice = Num(2)
  /\ filterConfig.displayCount >= Len(stocks.items)
  /\ \E i, j \in 1..Len(stocks.items) :
       /\ stocks.items[i].current_price = 2
       /\ InView(stocks.items[i])
       /\ stocks.items[j].current_price = 3
       /\ Retained(stocks.items[j], [filterConfig EXCEPT !.maxPrice = Infinity])
       /\ ~InView(stocks.items[j])

\* C10: two snapshots of the view with equal values of the sort key are in
\* the order they have in the store, for either direction.
C10_SortStable ==
  Quiescent
    => \A i, j \in 1..Len(filteredStocks) :
         (i < j /\ filteredStocks[i][sortConfig.key] = filteredStocks[j][sortConfig.key])
           => StorePos(filteredStocks[i]) < StorePos(filteredStocks[j])

C10_Witness ==
  /\ Quiescent
  /\ sortConfig = [key |-> "current_price", direction |-> "desc"]
  /\ \E i, j, k \in 1..Len(filteredStocks) :
       /\ i < j
       /\ filteredStocks[i][sortConfig.key] = filteredStocks[j][sortConfig.key]
       /\ filteredStocks[i].percent_change > filteredStocks[j].percent_change
       /\ k < i
       /\ StorePos(filteredStocks[k]) > StorePos(filteredStocks[j])

\* the snapshots of the store that pass the filter of the specification
Passing == {i \in 1..Len(stocks.items) : Retained(stocks.items[i], filterConfig)}

\* x ranks no better than y in the configured order
RanksNoBetter(x, y) ==
  IF sortConfig.direction = "asc"
  THEN x[sortConfig.key] >= y[sortConfig.key]
  ELSE x[sortConfig.key] <= y[sortConfig.key]

\* C11: the view has min(displayCount, number of passing snapshots) entries,
\* is ordered by the configured key in the configured direction, and every
\* passing snapshot left out ranks no better than every entry of the view.
C11_TruncationKeepsBestRanked ==
  Quiescent
    => /\ Len(filteredStocks) =
            (IF filterConfig.displayCount < Cardinality(Passing)
             THEN filterConfig.displayCount ELSE Cardinality(Passing))
       /\ \A i, j \in 1..Len(filteredStocks) :
            i < j => RanksNoBetter(filteredStocks[j], filteredStocks[i])
       /\ \A i \in Passing, j \in 1..Len(filteredStocks) :
            ~InView(stocks.items[i]) => RanksNoBetter(stocks.items[i], filteredStocks[j])

C11_Witness ==
  /\ Quiescent
  /\ filterConfig.displayCount = 2
  /\ Cardinality(Passing) = 3
  /\ Len(filteredStocks) = 2
  /\ sortConfig = [key |-> "current_price", direction |-> "asc"]
  /\ \E i \in Passing :
       /\ i < Len(stocks.items)
       /\ ~InView(stocks.items[i])
       /\ stocks.items[i].current_price > filteredStocks[2].current_price

\* the bounds of a filter configuration
BoundFields == {"minPrice", "maxPrice", "minVolume", "maxVolume", "minTradeCount"}

\* a bound is absent
InvalidFilter(f) == \E field \in BoundFields : f[field] = Undefined

\* C12: a configuration call whose input carries an absent bound is rejected:
\* a step that would leave a bound of the filter absent leaves FilterConfig
\* and SortConfig exactly as they were.
C12_InvalidConfigRejected ==
  [][InvalidFilter(filterConfig') => UNCHANGED <<filterConfig, sortConfig>>]_vars

Flipped(direction) == IF direction = "asc" THEN "desc" ELSE "asc"

\* C13: starting from (trade_count, descending), a setSortConfig call with the
\* selected key keeps the key and flips the direction, and a call with another
\* key selects that key with direction ascending.
C13_SortToggle ==
  /\ sortConfig = [key |-> "trade_count", direction |-> "desc"]
  /\ [][\A key \in SortKeys :
          handleSort(key) =>
            /\ sortConfig'.key = key
            /\ sortConfig'.direction =
                 (IF key = sortConfig.key THEN Flipped(sortConfig.direction) ELSE "asc")]_vars

C13_Witness ==
  /\ sortConfig = [key |-> "current_price", direction |-> "desc"]
  /\ rendered.sortConfig = [key |-> "current_price", direction |-> "asc"]

\* C14: every connection attempt enters connecting, so connected is only ever
\* entered from connecting and disconnected is never directly followed by
\* connected.
C14_ConnectedOnlyFromConnecting ==
  [][(connectionStatus' = "connected" /\ connectionStatus # "connected")
       => connectionStatus = "connecting"]_vars

Store == stocks.items

\* the sum of a field over the snapshots at a set of positions of the store
RECURSIVE TotalOf(_, _)
TotalOf(positions, key) ==
  IF positions = {} THEN 0
  ELSE LET k == CHOOSE k \in positions : TRUE
       IN  Store[k][key] + TotalOf(positions \ {k}, key)

\* the position in the store of the snapshot with a symbol
PosOf(symbol) == CHOOSE k \in 1..Len(Store) : Store[k].symbol = symbol

Listed(list, k) == \E i \in 1..Len(list) : list[i].symbol = Store[k].symbol

MinFive == IF Len(Store) < 5 THEN Len(Store) ELSE 5

\* a list of the statistics names min(5, n) different snapshots of the store
ListsStore(list) ==
  /\ Len(list) = MinFive
  /\ \A i \in 1..Len(list) :
       \E k \in 1..Len(Store) : /\ Store[k].symbol = list[i].symbol
                                /\ Store[k].percent_change = list[i].percent_change
  /\ \A i, j \in 1..Len(list) : i # j => list[i].symbol # list[j].symbol

C17_MarketBreadth ==
  (Quiescent /\ Store # <<>>)
    => LET n == Len(Store)
           g == Cardinality({k \in 1..n : Store[k].percent_change > 0})
           t == stats.marketTrend
       IN  /\ stats.present
           /\ t.gainers = g
           /\ t.losers = Cardinality({k \in 1..n : Store[k].percent_change <= 0})
           /\ t.gainers + t.losers = n
           /\ 2 * (t.ratio * n - 1000 * g) <= n
           /\ 2 * (t.ratio * n - 1000 * g) > -n
           /\ [k \in 1..n |-> Store[k].percent_change] = <<5, -3, 1>> => t.ratio = 667

C17_Witness ==
  /\ Quiescent
  /\ [k \in 1..Len(Store) |-> Store[k].percent_change] = <<5, -3, 1>>
  /\ stats.marketTrend = [gainers |-> 2, losers |-> 1, ratio |-> 667]

\* C18: topGainers lists the min(5, n) snapshots with the highest
\* percent_change in descending order, topLosers the min(5, n) with the lowest
\* in ascending order; no snapshot outside topGainers has a strictly higher
\* percent_change than one inside, none outside topLosers a strictly lower one.
C18_TopGainersAndLosers ==
  (Quiescent /\ Store # <<>>)
    => /\ stats.present
       /\ ListsStore(stats.topGainers)
       /\ ListsStore(stats.topLosers)
       /\ \A i, j \in 1..MinFive :
            i < j => /\ stats.topGainers[i].percent_change >=
                          stats.topGainers[j].percent_change
                     /\ stats.topLosers[i].percent_change <=
                          stats.topLosers[j].percent_change
       /\ \A k \in 1..Len(Store), i \in 1..MinFive :
            /\ ~Listed(stats.topGainers, k)
                 => Store[k].percent_change <= stats.topGainers[i].percent_change
            /\ ~Listed(stats.topLosers, k)
                 => Store[k].percent_change >= stats.topLosers[i].percent_change

C18_Witness ==
  /\ Quiescent
  /\ Len(Store) = 6
  /\ Len(stats.topGainers) = 5
  /\ stats.topGainers[1].percent_change = 5
  /\ stats.topGainers[5].percent_change = 0
  /\ stats.topLosers[1].percent_change = -3
  /\ stats.topLosers[5].percent_change = 5

\* x comes before y in the descending order of a field with ties in store order
Before(x, y, key) ==
  \/ Store[x][key] > Store[y][key]
  \/ Store[x][key] = Store[y][key] /\ x < y

\* a list of the statistics is the head of that order
MostActive(list, key) ==
  /\ ListsStore(list)
  /\ \A i, j \in 1..Len(list) :
       i < j => Before(PosOf(list[i].symbol), PosOf(list[j].symbol), key)
  /\ \A k \in 1..Len(Store), i \in 1..Len(list) :
       ~Listed(list, k) => Before(PosOf(list[i].symbol), k, key)

Symbols(list) == [i \in 1..Len(list) |-> list[i].symbol]

\* C19: mostActiveByVolume and mostActiveByTrades list the min(5, n)
\* snapshots with the largest volume, respectively trade_count, in descending
\* order, snapshots with equal values in their store order; for the volumes
\* AAA = 100, BBB = 400, CCC = 50 the volume list is BBB, AAA, CCC.
C19_MostActive ==
  (Quiescent /\ Store # <<>>)
    => /\ stats.present
       /\ MostActive(stats.mostActiveVolume, "volume")
       /\ MostActive(stats.mostActiveTrades, "trade_count")
       /\ (/\ Symbols(Store) = <<"AAA", "BBB", "CCC">>
           /\ [k \in 1..3 |-> Store[k].volume] = <<100, 400, 50>>)
            => Symbols(stats.mostActiveVolume) = <<"BBB", "AAA", "CCC">>

\* equal volumes inside the list of five and across its end
C19_Witness ==
  /\ Quiescent
  /\ Symbols(Store) = <<"DDD", "FFF", "GGG", "AAA", "BBB", "CCC">>
  /\ Symbols(stats.mostActiveVolume) = <<"GGG", "BBB", "DDD", "AAA", "FFF">>

\* C20: with an empty store, at startup and after an empty market_data frame
\* replaced a non-empty store, the statistics are the null result and nothing
\* is divided by zero; with a non-empty store totalVolume and totalTrades are
\* the sums of volume and trade_count over all snapshots.
C20_EmptyStoreNullStats ==
  /\ stats.present => stats.avgPrice.den > 0
  /\ Quiescent
       => IF Store = <<>>
          THEN ~stats.present
          ELSE /\ stats.present
               /\ stats.totalVolume = TotalOf(1..Len(Store), "volume")
               /\ stats.totalTrades = TotalOf(1..Len(Store), "trade_count")

C20_Witness ==
  /\ Quiescent
  /\ Store = <<>>
  /\ ~stats.present
  /\ \E n \in 1..Len(decoded) : decoded[n] = Json("market_data", JsArray(GenOne))
  /\ LastDecoded = Json("market_data", JsArray(<<>>))

\* C21: recomputing the view has no side effects: a commit leaves FilterConfig
\* and SortConfig as they were and changes the store only by decoding a new
\* frame, and a recomputation from the store, filter and sort of an earlier
\* one produces the same view.
C21_RecomputePure ==
  /\ [][rendered' # rendered
          => /\ filterConfig' = filterConfig
             /\ sortConfig' = sortConfig
             /\ MessageDeps(rendered') = MessageDeps(rendered) => stocks' = stocks]_vars
  /\ [](firstRun.same)

C21_Witness ==
  /\ Quiescent
  /\ firstRun.again
  /\ firstRun.inputs = ViewDeps(rendered)
  /\ firstRun.inputs[1] = JsArray(GenOne)
  /\ firstRun.inputs[2] = [key |-> "current_price", direction |-> "asc"]
  /\ Len(decoded) = 1
  /\ filteredStocks = firstRun.view

\* ---------------------------------------------------------- historical data
\* the request r fails in this step
Fails(r) == Pending(r) /\ requests'[r].outcome = "failed"

\* C22: when a historical-data request fails (network error, non-OK status
\* or a response with success = false) the error state becomes set and the
\* loading flag is cleared, and the store, the view, ConnectionState and the
\* retry counter are left unchanged.
C22_FetchFailureSurfaced ==
  [][\A r \in 1..Len(requests) :
       Fails(r) => /\ error'.t = "string"
                   /\ error'.v # ""
                   /\ ~isLoading'
                   /\ UNCHANGED <<stocks, filteredStocks, connectionStatus,
                                  reconnectCountRef>>]_vars

\* ---------------------------------------------------- connection and timer
Live == {i \in 1..Len(sockets) : sockets[i].readyState \in {"CONNECTING", "OPEN"}}

\* C23: at every moment at most one connection is open or connecting, at most
\* one reconnection timer is pending, and a pending timer never coexists with
\* an open connection, also when the URL changes or teardown happens.
C23_OneConnectionOneTimer ==
  /\ Cardinality(Live) <= 1
  /\ Cardinality(timers) <= 1
  /\ timers # {} => \A i \in 1..Len(sockets) : sockets[i].readyState # "OPEN"

\* ------------------------------------------------------------ range controls
\* C24: after any sequence of changes made through the controls maxPrice and
\* maxVolume are a number or the unbounded sentinel, so that after the price
\* range control was moved to v from the default filter every snapshot with
\* current_price >= v is in the view.
C24_RangeControlKeepsMax ==
  /\ filterConfig.maxPrice.t \in {"num", "inf"}
  /\ filterConfig.maxVolume.t \in {"num", "inf"}
  /\ (/\ Quiescent
      /\ filterConfig.minPrice = Num(2)
      /\ filterConfig.minVolume = Num(0)
      /\ filterConfig.minTradeCount = Num(0))
       => \A k \in 1..Len(Store) :
            Store[k].current_price >= 2 => InView(Store[k])

\* ------------------------------------------------------- overlapping requests
\* symbol A was selected, then another symbol B before the response of A
Overlap ==
  /\ Len(requests) = 2
  /\ requests[2].concurrent
  /\ requests[1].symbol # requests[2].symbol

\* C25: when B is selected before the response of A has arrived, then after
\* both responses have been delivered, in either order, the historical data
\* held for display is the data of B, and the loading flag is not cleared
\* while the request of B is outstanding.
C25_LatestSelectionWins ==
  Overlap
    => /\ (requests[1].outcome = "data" /\ requests[2].outcome = "data")
            => /\ selectedSymbol = requests[2].symbol
               /\ historicalData = chartData(History(requests[2].symbol))
       /\ Pending(2) => isLoading

====
